---- MODULE Spec2Model ----
(***************************************************************************)
(* Day care record keeper (azle/express canister).  The repository holds   *)
(* two builds of the same server: src/unnamed/part_000 and src/src/index.ts*)
(* (lines 1-421; lines 423-486 repeat an earlier draft of the file and are *)
(* not modelled).  The variable `variant' says which build is deployed.    *)
(*                                                                         *)
(* State: the five StableBTreeMap stores, plus req/resp, the last request  *)
(* as far as its handler read it and the answer it got.  The GET routes    *)
(* change no store and are left out.                                       *)
(*                                                                         *)
(* Strings that the code inspects (emails, phone numbers, the amount of a  *)
(* payment request) are sequences of one-character strings.  Identifiers   *)
(* are integers: NoId stands for a missing/empty id field, UnknownId for a *)
(* well-formed id that no store holds.  Timestamps (createdAt, date) and   *)
(* the child's birthdate are not part of the state: no handler reads them. *)
(* Amounts are integers.  Request bodies carry the fields the handlers     *)
(* name; the body of PUT /children/:id may also carry id and guardianId.   *)
(***************************************************************************)
EXTENDS Integers, Sequences, FiniteSets, TLC

VARIABLES variant, ownerStorage, guardiansStorage, childrenStorage,
          feeStructureStorage, paymentsStorage, req, resp

vars == <<variant, ownerStorage, guardiansStorage, childrenStorage,
          feeStructureStorage, paymentsStorage, req, resp>>

stores == <<ownerStorage, guardiansStorage, childrenStorage,
            feeStructureStorage, paymentsStorage>>

\* ------------------------------------------------------------- bounds
MaxOwners == 2
MaxGuardians == 1
MaxChildren == 2
MaxFees == 1
MaxPayments == 2
MaxChildIds == 2

NoId == 0
UnknownId == -1

OwnerIds == 1..MaxOwners
GuardianIds == 1..MaxGuardians
ChildIds == 1..MaxChildren
FeeIds == 1..MaxFees
PaymentIds == 1..MaxPayments

Variants == {"part_000", "index"}

\* ------------------------------------------------------------- inputs
Str_a == <<"a", "@", "b", ".", "c">>
Str_d == <<"d", "@", "b", ".", "c">>
Names == {<<>>, <<"n">>}
Emails == {<<>>, Str_a, Str_d, <<"a", "@", "b">>}
GuardianEmails == {<<>>, Str_a, <<"a", " ", "@", "b", ".", "c">>}
Phones == {<<>>,
           <<"0", "1", "2", "3", "4", "5", "6", "7", "8", "9">>,
           <<"0", "1", "2", "3", "4", "5", "6", "7", "8", "x">>}
Birthdates == {<<>>, <<"2", "0", "2", "0">>}
FeeAmounts == {0, 2, -1}

Num(n) == [t |-> "num", v |-> n]
Str(s) == [t |-> "str", v |-> s]
AmountInputs == {Num(0), Str(<<"-", "1">>), Num(1), Num(3), Str(<<"5", "x">>), Str(<<"x">>)}

RECURSIVE SeqsUpTo(_, _)
SeqsUpTo(S, n) ==
  IF n = 0 THEN {<<>>}
  ELSE LET shorter == SeqsUpTo(S, n - 1)
       IN shorter \cup {Append(s, x) : s \in {t \in shorter : Len(t) = n - 1}, x \in S}

ChildIdLists == SeqsUpTo(ChildIds \cup {UnknownId}, MaxChildIds)

\* ------------------------------------------------------------- StableBTreeMap
\* get(k) finds an entry
Has(store, k) == k \in DOMAIN store

Insert(store, k, v) == [x \in DOMAIN store \cup {k} |-> IF x = k THEN v ELSE store[x]]

MinKey(S) == CHOOSE k \in S : \A j \in S : k <= j

RECURSIVE KeysInOrder(_)
KeysInOrder(S) == IF S = {} THEN <<>> ELSE <<MinKey(S)>> \o KeysInOrder(S \ {MinKey(S)})

\* values(): the entries in key order
Values(store) == [i \in 1..Cardinality(DOMAIN store) |-> store[KeysInOrder(DOMAIN store)[i]]]

EmptyStore == [x \in {} |-> 0]

\* uuidv4(): an identifier no store entry has
uuidv4(pool, store) == pool \ DOMAIN store

\* one representative fresh identifier, for stores whose key order no handler reads
Fresh(pool, store) == IF uuidv4(pool, store) = {} THEN {} ELSE {MinKey(uuidv4(pool, store))}

\* ------------------------------------------------------------- validation
Digits == {"0", "1", "2", "3", "4", "5", "6", "7", "8", "9"}
Whitespace == {" "}

\* /^[^\s@]+@[^\s@]+\.[^\s@]+$/
validateEmail(email) ==
  \E p \in 1..Len(email), q \in 1..Len(email) :
    /\ email[p] = "@"
    /\ email[q] = "."
    /\ p > 1
    /\ q > p + 1
    /\ q < Len(email)
    /\ \A i \in 1..Len(email) : email[i] \notin Whitespace /\ (email[i] = "@" => i = p)

\* /^\d{10}$/
validatePhoneNumber(phoneNumber) ==
  /\ Len(phoneNumber) = 10
  /\ \A i \in 1..Len(phoneNumber) : phoneNumber[i] \in Digits

\* !x for a string field
Missing(s) == s = <<>>

\* ------------------------------------------------------------- responses
NoReq == [childIds |-> <<>>, amount |-> Num(0), guardianId |-> NoId]

Response(op, status, message) ==
  [op |-> op, status |-> status, message |-> message,
   payments |-> <<>>, balancePerChild |-> <<>>, invalidChildIds |-> <<>>]

Reply(op, status, message) ==
  /\ resp' = Response(op, status, message)
  /\ req' = NoReq

Init ==
  /\ variant \in Variants
  /\ ownerStorage = EmptyStore
  /\ guardiansStorage = EmptyStore
  /\ childrenStorage = EmptyStore
  /\ feeStructureStorage = EmptyStore
  /\ paymentsStorage = EmptyStore
  /\ req = NoReq
  /\ resp = Response("none", 0, "")

\* ------------------------------------------------------------- POST /owner
NewOwner(id, name, email, phoneNumber) ==
  [id |-> id, name |-> name, email |-> email, phoneNumber |-> phoneNumber]

\* part_000: an owner exists already
OwnerExists == Len(Values(ownerStorage)) > 0

PostOwner(name, email, phoneNumber) ==
  /\ variant = "part_000"
  /\ UNCHANGED <<variant, guardiansStorage, childrenStorage, feeStructureStorage, paymentsStorage>>
  /\ IF Missing(name) \/ Missing(email) \/ Missing(phoneNumber)
     THEN Reply("owner", 400, "Missing required fields") /\ UNCHANGED ownerStorage
     ELSE IF ~validatePhoneNumber(phoneNumber)
     THEN Reply("owner", 400, "Invalid phone number format") /\ UNCHANGED ownerStorage
     ELSE IF ~validateEmail(email)
     THEN Reply("owner", 400, "Invalid email format") /\ UNCHANGED ownerStorage
     ELSE IF OwnerExists
     THEN Reply("owner", 409, "Owner already exists") /\ UNCHANGED ownerStorage
     ELSE \E id \in Fresh(OwnerIds, ownerStorage) :
            /\ ownerStorage' = Insert(ownerStorage, id, NewOwner(id, name, email, phoneNumber))
            /\ Reply("owner", 201, "Owner created successfully")

\* index.ts: an owner with the same email exists already
OwnerWithEmail(email) == \E i \in 1..Len(Values(ownerStorage)) : Values(ownerStorage)[i].email = email

PostOwnerIndex(name, email, phoneNumber) ==
  /\ variant = "index"
  /\ UNCHANGED <<variant, guardiansStorage, childrenStorage, feeStructureStorage, paymentsStorage>>
  /\ IF Missing(name) \/ Missing(email) \/ Missing(phoneNumber)
     THEN Reply("owner", 400, "Missing required fields") /\ UNCHANGED ownerStorage
     ELSE IF ~validatePhoneNumber(phoneNumber)
     THEN Reply("owner", 400, "Invalid phone number format") /\ UNCHANGED ownerStorage
     ELSE IF ~validateEmail(email)
     THEN Reply("owner", 400, "Invalid email format") /\ UNCHANGED ownerStorage
     ELSE IF OwnerWithEmail(email)
     THEN Reply("owner", 409, "Owner with the same email already exists") /\ UNCHANGED ownerStorage
     ELSE \E id \in Fresh(OwnerIds, ownerStorage) :
            /\ ownerStorage' = Insert(ownerStorage, id, NewOwner(id, name, email, phoneNumber))
            /\ Reply("owner", 200, "Owner created successfully")

\* ------------------------------------------------------------- POST /guardians
NewGuardian(id, name, email, phoneNumber) ==
  [id |-> id, name |-> name, email |-> email, phoneNumber |-> phoneNumber, childrenIds |-> <<>>]

\* guardiansStorage.values().find((g) => g.email === email)
GuardianWithEmail(email) ==
  \E i \in 1..Len(Values(guardiansStorage)) : Values(guardiansStorage)[i].email = email

GuardianOutcome(name, email, phoneNumber, created) ==
  IF Missing(name) \/ Missing(email) \/ Missing(phoneNumber)
  THEN Response("guardians", 400, "Missing required fields")
  ELSE IF ~validatePhoneNumber(phoneNumber)
  THEN Response("guardians", 400, "Invalid phone number format")
  ELSE IF ~validateEmail(email)
  THEN Response("guardians", 400, "Invalid email format")
  ELSE IF GuardianWithEmail(email)
  THEN Response("guardians", 409, "Guardian with the same email already exists")
  ELSE Response("guardians", created, "Guardian created successfully")

PostGuardians(name, email, phoneNumber) ==
  /\ variant = "part_000"
  /\ UNCHANGED <<variant, ownerStorage, childrenStorage, feeStructureStorage, paymentsStorage>>
  /\ req' = NoReq
  /\ resp' = GuardianOutcome(name, email, phoneNumber, 201)
  /\ IF resp'.status = 201
     THEN \E id \in Fresh(GuardianIds, guardiansStorage) :
            guardiansStorage' = Insert(guardiansStorage, id, NewGuardian(id, name, email, phoneNumber))
     ELSE UNCHANGED guardiansStorage

PostGuardiansIndex(name, email, phoneNumber) ==
  /\ variant = "index"
  /\ UNCHANGED <<variant, ownerStorage, childrenStorage, feeStructureStorage, paymentsStorage>>
  /\ req' = NoReq
  /\ resp' = GuardianOutcome(name, email, phoneNumber, 200)
  /\ IF resp'.status = 200
     THEN \E id \in Fresh(GuardianIds, guardiansStorage) :
            guardiansStorage' = Insert(guardiansStorage, id, NewGuardian(id, name, email, phoneNumber))
     ELSE UNCHANGED guardiansStorage

\* ------------------------------------------------------------- POST /children
NewChild(id, name, guardianId) == [id |-> id, name |-> name, guardianId |-> guardianId]

ChildOutcome(name, birthdate, guardianId, created) ==
  IF Missing(name) \/ Missing(birthdate) \/ guardianId = NoId
  THEN Response("children", 400, "Missing required fields")
  ELSE IF ~Has(guardiansStorage, guardianId)
  THEN Response("children", 404, "Guardian not found")
  ELSE Response("children", created, "Child created successfully")

\* the handler inserts the child and leaves the guardian's childrenIds alone
PostChildren(name, birthdate, guardianId) ==
  /\ variant = "part_000"
  /\ UNCHANGED <<variant, ownerStorage, guardiansStorage, feeStructureStorage, paymentsStorage>>
  /\ req' = NoReq
  /\ resp' = ChildOutcome(name, birthdate, guardianId, 201)
  /\ IF resp'.status = 201
     THEN \E id \in Fresh(ChildIds, childrenStorage) :
            childrenStorage' = Insert(childrenStorage, id, NewChild(id, name, guardianId))
     ELSE UNCHANGED childrenStorage

PostChildrenIndex(name, birthdate, guardianId) ==
  /\ variant = "index"
  /\ UNCHANGED <<variant, ownerStorage, guardiansStorage, feeStructureStorage, paymentsStorage>>
  /\ req' = NoReq
  /\ resp' = ChildOutcome(name, birthdate, guardianId, 200)
  /\ IF resp'.status = 200
     THEN \E id \in Fresh(ChildIds, childrenStorage) :
            childrenStorage' = Insert(childrenStorage, id, NewChild(id, name, guardianId))
     ELSE UNCHANGED childrenStorage

\* ------------------------------------------------------------- POST /fee-structure
\* !amount for a number: only 0 is missing; a negative amount passes
FeeOutcome(name, amount, ownerId, created) ==
  IF Missing(name) \/ amount = 0 \/ ownerId = NoId
  THEN Response("fee-structure", 400, "Missing required fields")
  ELSE IF ~Has(ownerStorage, ownerId)
  THEN Response("fee-structure", 404, "Owner not found")
  ELSE Response("fee-structure", created, "Fee structure created successfully")

PostFeeStructure(name, amount, ownerId) ==
  /\ variant = "part_000"
  /\ UNCHANGED <<variant, ownerStorage, guardiansStorage, childrenStorage, paymentsStorage>>
  /\ req' = NoReq
  /\ resp' = FeeOutcome(name, amount, ownerId, 201)
  /\ IF resp'.status = 201
     THEN \E id \in uuidv4(FeeIds, feeStructureStorage) :
            feeStructureStorage' =
              Insert(feeStructureStorage, id, [id |-> id, name |-> name, amount |-> amount])
     ELSE UNCHANGED feeStructureStorage

\* index.ts spreads the request body into the record, so ownerId is stored too
PostFeeStructureIndex(name, amount, ownerId) ==
  /\ variant = "index"
  /\ UNCHANGED <<variant, ownerStorage, guardiansStorage, childrenStorage, paymentsStorage>>
  /\ req' = NoReq
  /\ resp' = FeeOutcome(name, amount, ownerId, 200)
  /\ IF resp'.status = 200
     THEN \E id \in uuidv4(FeeIds, feeStructureStorage) :
            feeStructureStorage' =
              Insert(feeStructureStorage, id,
                     [id |-> id, name |-> name, amount |-> amount, ownerId |-> ownerId])
     ELSE UNCHANGED feeStructureStorage

\* ------------------------------------------------------------- PUT /children/:id
\* { ...child, ...req.body }: a field the body carries replaces the child's
Merge(child, body) ==
  [id |-> IF body.id = NoId THEN child.id ELSE body.id,
   name |-> child.name,
   guardianId |-> IF body.guardianId = NoId THEN child.guardianId ELSE body.guardianId]

\* request bodies of PUT: the empty body, and one that gives id and guardianId
PutBodies == {[id |-> NoId, guardianId |-> NoId], [id |-> UnknownId, guardianId |-> UnknownId]}

PutChildren(id, body) ==
  /\ variant = "part_000"
  /\ UNCHANGED <<variant, ownerStorage, guardiansStorage, feeStructureStorage, paymentsStorage>>
  /\ req' = NoReq
  /\ IF ~Has(childrenStorage, id)
     THEN resp' = Response("put-children", 404, "Child not found") /\ UNCHANGED childrenStorage
     ELSE /\ childrenStorage' = Insert(childrenStorage, id, Merge(childrenStorage[id], body))
          /\ resp' = Response("put-children", 200, "")

PutChildrenIndex(id, body) ==
  /\ variant = "index"
  /\ UNCHANGED <<variant, ownerStorage, guardiansStorage, feeStructureStorage, paymentsStorage>>
  /\ req' = NoReq
  /\ IF ~Has(childrenStorage, id)
     THEN resp' = Response("put-children", 404, "Child not found") /\ UNCHANGED childrenStorage
     ELSE /\ childrenStorage' = Insert(childrenStorage, id, Merge(childrenStorage[id], body))
          /\ resp' = Response("put-children", 200, "")

\* ------------------------------------------------------------- POST /payments
\* !amount: 0 and the empty string are falsy
Falsy(amount) == IF amount.t = "num" THEN amount.v = 0 ELSE amount.v = <<>>

DigitSeq == <<"0", "1", "2", "3", "4", "5", "6", "7", "8", "9">>

DigitVal(c) == (CHOOSE i \in 1..Len(DigitSeq) : DigitSeq[i] = c) - 1

RECURSIVE ParseDigits(_, _, _)
ParseDigits(s, i, acc) ==
  IF i > Len(s) \/ s[i] \notin Digits THEN acc
  ELSE ParseDigits(s, i + 1, acc * 10 + DigitVal(s[i]))

RECURSIVE SkipWhitespace(_, _)
SkipWhitespace(s, i) == IF i <= Len(s) /\ s[i] \in Whitespace THEN SkipWhitespace(s, i + 1) ELSE i

\* parseFloat on the integer part of the grammar: leading whitespace, an optional
\* sign, then the longest run of digits; NaN when no digit is there
parseFloat(amount) ==
  IF amount.t = "num" THEN [nan |-> FALSE, v |-> amount.v]
  ELSE LET s == amount.v
           i == SkipWhitespace(s, 1)
           neg == i <= Len(s) /\ s[i] = "-"
           j == IF i <= Len(s) /\ s[i] \in {"-", "+"} THEN i + 1 ELSE i
       IN IF j > Len(s) \/ s[j] \notin Digits THEN [nan |-> TRUE, v |-> 0]
          ELSE [nan |-> FALSE, v |-> IF neg THEN 0 - ParseDigits(s, j, 0) ELSE ParseDigits(s, j, 0)]

isNaN(x) == x.nan

Min(a, b) == IF a <= b THEN a ELSE b
Max(a, b) == IF a >= b THEN a ELSE b

\* a validation that looks at the first child id only
InvalidChildIds_firstOnly(childIds) ==
  IF Len(childIds) > 0 /\ ~Has(childrenStorage, childIds[1]) THEN <<childIds[1]>> ELSE <<>>

\* the ids of childIds that childrenStorage does not hold, in order
InvalidChildIds(childIds) == SelectSeq(childIds, LAMBDA c : ~Has(childrenStorage, c))

\* part_000: the children found, nulls filtered out
ValidChildren(childIds) ==
  LET found == SelectSeq(childIds, LAMBDA c : Has(childrenStorage, c))
  IN [i \in 1..Len(found) |-> childrenStorage[found[i]]]

\* one map() over n children: each takes min(amountPerChild, amountNum) off the
\* shared amountNum.  Gives what each child took and what amountNum is afterwards.
RECURSIVE Pass(_, _, _)
Pass(amountPerChild, amountNum, n) ==
  IF n = 0 THEN [taken |-> <<>>, amountNum |-> amountNum]
  ELSE LET paymentAmount == Min(amountPerChild, amountNum)
           rest == Pass(amountPerChild, amountNum - paymentAmount, n - 1)
       IN [taken |-> <<paymentAmount>> \o rest.taken, amountNum |-> rest.amountNum]

\* first map(): the balances
BalancePerChild(validChildren, amountPerChild, amountNum) ==
  LET pass == Pass(amountPerChild, amountNum, Len(validChildren))
  IN [i \in 1..Len(validChildren) |->
        [childId |-> validChildren[i].id, balance |-> Max(0, amountPerChild - pass.taken[i])]]

\* amountNum as the first map() leaves it
AmountAfterBalances(validChildren, amountPerChild, amountNum) ==
  Pass(amountPerChild, amountNum, Len(validChildren)).amountNum

\* second map(): the payments, from the amountNum the first map() left
Payments(validChildren, amountPerChild, amountNum, ids) ==
  LET pass == Pass(amountPerChild, amountNum, Len(validChildren))
  IN [i \in 1..Len(validChildren) |->
        [id |-> ids[i], childId |-> validChildren[i].id,
         amount |-> pass.taken[i], status |-> "PAID"]]

\* n calls of uuidv4(): n identifiers, distinct and held by no payment
RECURSIVE FreshSeq(_, _, _)
FreshSeq(pool, used, n) ==
  IF n = 0 THEN {<<>>}
  ELSE IF pool \ used = {} THEN {}
  ELSE LET k == MinKey(pool \ used)
       IN {<<k>> \o s : s \in FreshSeq(pool, used \cup {k}, n - 1)}

\* one uuidv4() shared by the n payments of a call
SameUuid(store, n) ==
  IF PaymentIds \ DOMAIN store = {} THEN {}
  ELSE {[i \in 1..n |-> MinKey(PaymentIds \ DOMAIN store)]}

\* uuids numbered afresh in every call, whatever the store holds
RestartedUuids(store, n) == FreshSeq(PaymentIds, {}, n)

PaymentUuids(store, n) == FreshSeq(PaymentIds, DOMAIN store, n)

\* payments.forEach(insert)
RECURSIVE StorePayments(_, _)
StorePayments(store, payments) ==
  IF payments = <<>> THEN store
  ELSE StorePayments(Insert(store, Head(payments).id, Head(payments)), Tail(payments))

Created(status, payments, balancePerChild) ==
  [op |-> "payments", status |-> status, message |-> "Payments created successfully",
   payments |-> payments, balancePerChild |-> balancePerChild, invalidChildIds |-> <<>>]

InvalidChildren(invalidChildIds) ==
  [op |-> "payments", status |-> 404, message |-> "Invalid child IDs",
   payments |-> <<>>, balancePerChild |-> <<>>, invalidChildIds |-> invalidChildIds]

Allocate(status, validChildren, amountPerChild, amountNum) ==
  \E ids \in PaymentUuids(paymentsStorage, Len(validChildren)) :
    LET balancePerChild == BalancePerChild(validChildren, amountPerChild, amountNum)
        payments == Payments(validChildren, amountPerChild,
                             AmountAfterBalances(validChildren, amountPerChild, amountNum), ids)
    IN /\ paymentsStorage' = StorePayments(paymentsStorage, payments)
       /\ resp' = Created(status, payments, balancePerChild)

\* what the handler has read of the request when it answers: the child ids are
\* looked at only once the guardian and the amount have passed
Request(childIds, amount, guardianId) ==
  [childIds |-> childIds, amount |-> amount, guardianId |-> guardianId]

Rejected(status, message, amount, guardianId) ==
  /\ resp' = Response("payments", status, message)
  /\ req' = Request(<<>>, amount, guardianId)
  /\ UNCHANGED paymentsStorage

\* childIds is an array, so !childIds is false
PostPayments(childIds, amount, guardianId) ==
  /\ variant = "part_000"
  /\ UNCHANGED <<variant, ownerStorage, guardiansStorage, childrenStorage, feeStructureStorage>>
  /\ IF Falsy(amount) \/ guardianId = NoId
     THEN Rejected(400, "Missing required fields", amount, guardianId)
     ELSE IF ~Has(guardiansStorage, guardianId)
     THEN Rejected(404, "Guardian not found", amount, guardianId)
     ELSE IF Len(Values(feeStructureStorage)) = 0
     THEN Rejected(404, "Fee structure not found", amount, guardianId)
     ELSE IF isNaN(parseFloat(amount)) \/ parseFloat(amount).v <= 0
     THEN Rejected(400, "Invalid amount", amount, guardianId)
     ELSE /\ req' = Request(childIds, amount, guardianId)
          /\ IF Len(InvalidChildIds(childIds)) > 0
             THEN resp' = InvalidChildren(InvalidChildIds(childIds)) /\ UNCHANGED paymentsStorage
             ELSE Allocate(201, ValidChildren(childIds), Values(feeStructureStorage)[1].amount,
                           parseFloat(amount).v)

\* index.ts: the fee structure is read unguarded after the child ids are checked:
\* with none stored, feeStructure.amount throws
PostPaymentsIndex(childIds, amount, guardianId) ==
  /\ variant = "index"
  /\ UNCHANGED <<variant, ownerStorage, guardiansStorage, childrenStorage, feeStructureStorage>>
  /\ IF Falsy(amount) \/ guardianId = NoId
     THEN Rejected(400, "Missing required fields", amount, guardianId)
     ELSE IF ~Has(guardiansStorage, guardianId)
     THEN Rejected(404, "Guardian not found", amount, guardianId)
     ELSE IF isNaN(parseFloat(amount)) \/ parseFloat(amount).v <= 0
     THEN Rejected(400, "Invalid amount", amount, guardianId)
     ELSE /\ req' = Request(childIds, amount, guardianId)
          /\ IF Len(InvalidChildIds(childIds)) > 0
             THEN resp' = InvalidChildren(InvalidChildIds(childIds)) /\ UNCHANGED paymentsStorage
             ELSE IF Len(Values(feeStructureStorage)) = 0
             THEN resp' = Response("payments", 500, "TypeError") /\ UNCHANGED paymentsStorage
             ELSE Allocate(200, ValidChildren(childIds), Values(feeStructureStorage)[1].amount,
                           parseFloat(amount).v)

Next ==
  \/ \E name \in Names, email \in Emails, phoneNumber \in Phones : PostOwner(name, email, phoneNumber)
  \/ \E name \in Names, email \in Emails, phoneNumber \in Phones : PostOwnerIndex(name, email, phoneNumber)
  \/ \E name \in Names, email \in GuardianEmails, phoneNumber \in Phones : PostGuardians(name, email, phoneNumber)
  \/ \E name \in Names, email \in GuardianEmails, phoneNumber \in Phones : PostGuardiansIndex(name, email, phoneNumber)
  \/ \E name \in Names, birthdate \in Birthdates, guardianId \in {NoId, UnknownId} \cup GuardianIds :
       PostChildren(name, birthdate, guardianId)
  \/ \E name \in Names, birthdate \in Birthdates, guardianId \in {NoId, UnknownId} \cup GuardianIds :
       PostChildrenIndex(name, birthdate, guardianId)
  \/ \E name \in Names, amount \in FeeAmounts, ownerId \in {NoId, UnknownId} \cup OwnerIds :
       PostFeeStructure(name, amount, ownerId)
  \/ \E name \in Names, amount \in FeeAmounts, ownerId \in {NoId, UnknownId} \cup OwnerIds :
       PostFeeStructureIndex(name, amount, ownerId)
  \/ \E id \in {UnknownId} \cup ChildIds, body \in PutBodies : PutChildren(id, body)
  \/ \E id \in {UnknownId} \cup ChildIds, body \in PutBodies : PutChildrenIndex(id, body)
  \/ \E childIds \in ChildIdLists, amount \in AmountInputs, guardianId \in {UnknownId} \cup GuardianIds :
       PostPayments(childIds, amount, guardianId)
  \/ \E childIds \in ChildIdLists, amount \in AmountInputs, guardianId \in {UnknownId} \cup GuardianIds :
       PostPaymentsIndex(childIds, amount, guardianId)

Spec == Init /\ [][Next]_vars

\* ============================================================= properties
Succeeded == resp.op = "payments" /\ resp.status \in {200, 201}

\* the fee per child the last allocate used: no allocate changes the fee store
FeePerChild == Values(feeStructureStorage)[1].amount

RequestedAmount == parseFloat(req.amount).v

RECURSIVE SumAmounts(_, _)
SumAmounts(payments, n) == IF n = 0 THEN 0 ELSE SumAmounts(payments, n - 1) + payments[n].amount

\* C1: the i-th payment of a successful allocate is for the i-th child id and its
\* amount is min(F, A - (the amounts of the payments before it)); it is stored so.
C1_FirstComeFirstFunded ==
  Succeeded =>
    /\ Len(resp.payments) = Len(req.childIds)
    /\ \A i \in 1..Len(resp.payments) :
         /\ resp.payments[i].childId = req.childIds[i]
         /\ resp.payments[i].amount =
              Min(FeePerChild, RequestedAmount - SumAmounts(resp.payments, i - 1))
         /\ Has(paymentsStorage, resp.payments[i].id)
         /\ paymentsStorage[resp.payments[i].id] = resp.payments[i]

\* C2: when the requested amount covers n fees, every payment is the fee, every
\* balance is 0 and the payments sum to n * F.
C2_FullyFunded ==
  (Succeeded /\ RequestedAmount >= Len(req.childIds) * FeePerChild) =>
    /\ \A i \in 1..Len(resp.payments) : resp.payments[i].amount = FeePerChild
    /\ \A i \in 1..Len(resp.balancePerChild) : resp.balancePerChild[i].balance = 0
    /\ SumAmounts(resp.payments, Len(resp.payments)) = Len(req.childIds) * FeePerChild

\* C3: when the requested amount is below the fee, the first child's payment is the
\* whole amount, every other payment is 0, and the payments sum to the amount.
C3_UnderFunded ==
  (Succeeded /\ RequestedAmount < FeePerChild /\ Len(req.childIds) >= 1) =>
    /\ Len(resp.payments) = Len(req.childIds)
    /\ resp.payments[1].amount = RequestedAmount
    /\ \A i \in 2..Len(resp.payments) : resp.payments[i].amount = 0
    /\ SumAmounts(resp.payments, Len(resp.payments)) = RequestedAmount

\* C4: at every position the balance entry and the payment are for the same child
\* and the balance is the fee less the payment's amount.
C4_BalanceIsShortfall ==
  Succeeded =>
    /\ Len(resp.balancePerChild) = Len(resp.payments)
    /\ \A i \in 1..Len(resp.payments) :
         /\ resp.balancePerChild[i].childId = resp.payments[i].childId
         /\ resp.balancePerChild[i].balance = FeePerChild - resp.payments[i].amount

\* a request that must fail, judged on the stores it meets
UnknownGuardian(r) == ~Has(guardiansStorage, r.guardianId)
InvalidAmount(r) == parseFloat(r.amount).nan \/ parseFloat(r.amount).v <= 0
NoFeeStructure == DOMAIN feeStructureStorage = {}
UnresolvedChild(r) == \E i \in 1..Len(r.childIds) : r.childIds[i] \notin DOMAIN childrenStorage

\* C5: an allocate that fails - its answer is no success, or its guardian is unknown,
\* its amount invalid, no fee structure is stored, or one of its child ids resolves
\* to no child - leaves all five stores as they were.
C5_FailedAllocateStoresNothing ==
  [][(resp'.op = "payments"
      /\ (\/ resp'.status \notin {200, 201}
          \/ UnknownGuardian(req')
          \/ InvalidAmount(req')
          \/ NoFeeStructure
          \/ UnresolvedChild(req')))
     => UNCHANGED stores]_vars

C5_Witness ==
  /\ resp.op = "payments"
  /\ resp.message = "Invalid child IDs"
  /\ \E i \in 1..Len(req.childIds) : Has(childrenStorage, req.childIds[i])
  /\ UnresolvedChild(req)
  /\ ~NoFeeStructure

\* C6: with no fee structure stored, an allocate whose guardian, amount and child
\* ids are valid is answered 404 'Fee structure not found'.
C6_FeeStructureNotFound ==
  (resp.op = "payments" /\ NoFeeStructure
   /\ ~UnknownGuardian(req) /\ ~InvalidAmount(req) /\ ~UnresolvedChild(req))
  => (resp.status = 404 /\ resp.message = "Fee structure not found")

\* C7: a successful allocate over n child ids inserts n payments, one per position
\* of childIds, each PAID, with ids distinct from each other and from every payment
\* stored before; the payment store grows by n.
C7_OnePaymentPerChild ==
  [][(resp'.op = "payments" /\ resp'.status \in {200, 201})
     => LET n == Len(req'.childIds)
            new == DOMAIN paymentsStorage' \ DOMAIN paymentsStorage
        IN /\ Len(resp'.payments) = n
           /\ Cardinality(new) = n
           /\ Cardinality(DOMAIN paymentsStorage') = Cardinality(DOMAIN paymentsStorage) + n
           /\ DOMAIN paymentsStorage \subseteq DOMAIN paymentsStorage'
           /\ \A i \in 1..n :
                /\ resp'.payments[i].id \in new
                /\ paymentsStorage'[resp'.payments[i].id] = resp'.payments[i]
                /\ resp'.payments[i].status = "PAID"
                /\ resp'.payments[i].childId = childrenStorage[req'.childIds[i]].id
                /\ \A j \in 1..n : resp'.payments[i].id = resp'.payments[j].id => i = j]_vars

C7_Witness == Succeeded /\ Len(resp.payments) = 2 /\ Cardinality(DOMAIN paymentsStorage) = 2

\* C8: no payment of a successful allocate is negative or above the fee per child.
C8_NoOverAllocation ==
  Succeeded =>
    \A i \in 1..Len(resp.payments) :
      /\ resp.payments[i].amount >= 0
      /\ resp.payments[i].amount <= FeePerChild
      /\ paymentsStorage[resp.payments[i].id].amount = resp.payments[i].amount

\* C9: the owner store never holds more than one owner.
C9_AtMostOneOwner == Cardinality(DOMAIN ownerStorage) <= 1

\* C10: every stored child names a stored guardian whose childrenIds hold the child's id.
C10_GuardianListsChild ==
  \A k \in DOMAIN childrenStorage :
    LET child == childrenStorage[k]
    IN Has(guardiansStorage, child.guardianId) =>
         \E i \in 1..Len(guardiansStorage[child.guardianId].childrenIds) :
           guardiansStorage[child.guardianId].childrenIds[i] = child.id

\* C11: every stored child's guardianId is the id of a stored guardian.
C11_ChildNamesStoredGuardian ==
  \A k \in DOMAIN childrenStorage : Has(guardiansStorage, childrenStorage[k].guardianId)

\* C12: every stored payment's childId is the key of a stored child, and the
\* payments of an allocate carry the child ids the caller passed, in order.
C12_PaymentNamesStoredChild ==
  /\ \A p \in DOMAIN paymentsStorage : Has(childrenStorage, paymentsStorage[p].childId)
  /\ Succeeded =>
       \A i \in 1..Len(resp.payments) : resp.payments[i].childId = req.childIds[i]

\* C13: no step removes a stored payment or changes any of its fields.
C13_PaymentsNeverChange ==
  [][\A p \in DOMAIN paymentsStorage :
       /\ p \in DOMAIN paymentsStorage'
       /\ paymentsStorage'[p] = paymentsStorage[p]]_vars

\* a second allocate has run on a store that held a payment already
C13_Witness ==
  /\ Succeeded
  /\ Len(resp.payments) = 1
  /\ Cardinality(DOMAIN paymentsStorage) = 2
====
